---- MODULE Spec2Model ----
(***************************************************************************)
(* A model of the PDF redaction service of src/main.py: the two request    *)
(* handlers extract_text_with_positions and redact_pdf, the calls they     *)
(* make on the PDF engine (PyMuPDF), and the coordinate conversion between *)
(* the engine's boxes and the top-left boxes of the service's JSON.        *)
(***************************************************************************)
EXTENDS Integers, Sequences, FiniteSets, TLC

VARIABLES
    handler,          \* which endpoint serves the request: "extract" | "redact"
    pc,               \* the handler's position
    pdf_bytes,        \* the upload: [valid, pages]
    redaction_items,  \* the form value of /redact-pdf
    items,            \* json.loads(redaction_items)
    items_by_page,    \* the dict of the grouping loop, in insertion order
    gi,               \* position of the loop over items, over items_by_page, over pdf_doc
    ii,               \* position of the loop over page_items
    page_num,         \* the loop variable page_num
    page,             \* index of the page object held by the handler
    layout,           \* what page.get_text("dict") returned, page by page
    text_blocks,      \* the list built by the extractor
    full_text,        \* the string built by the extractor
    log,              \* the calls made on the PDF engine, in order
    exc,              \* the exception that ended the request, or "none"
    status,           \* HTTP status of the response, 0 while running
    h,                \* conversion round trip: page height
    b,                \* conversion round trip: the engine's box
    tl,               \* conversion round trip: the extractor's top-left box
    back,             \* conversion round trip: the applicator's rectangle
    cpc               \* conversion round trip: position

vars == <<handler, pc, pdf_bytes, redaction_items, items, items_by_page, gi, ii,
          page_num, page, layout, text_blocks, full_text, log, exc, status,
          h, b, tl, back, cpc>>

reqvars == <<handler, pc, pdf_bytes, redaction_items, items, items_by_page, gi, ii,
             page_num, page, layout, text_blocks, full_text, log, exc, status>>

convvars == <<h, b, tl, back, cpc>>

----------------------------------------------------------------------------
(* Bounds of the model *)

\* pages of an uploaded document: 1..MaxPages
MaxPages == 2
\* redaction items of a request: 0..MaxItems
MaxItems == 3
\* spans the engine returns for one page: 0..MaxSpans
MaxSpans == 2
\* significant bits of the scaled-down binary floating-point format
Prec == 3
\* largest magnitude of a coordinate drawn for the conversion round trip
MaxCoord == 6

----------------------------------------------------------------------------
(* Python float arithmetic, scaled down: a binary floating-point format    *)
(* with Prec significant bits, round to nearest, ties to even.  Numbers    *)
(* are integers; every operation rounds its exact result.                  *)

Abs(n) == IF n < 0 THEN 0 - n ELSE n

RECURSIVE Pow2(_)
Pow2(n) == IF n <= 0 THEN 1 ELSE 2 * Pow2(n - 1)

RECURSIVE Ulp(_)
\* the spacing of the representable numbers at magnitude a
Ulp(a) == IF a < Pow2(Prec) THEN 1 ELSE 2 * Ulp(a \div 2)

RoundMag(a) ==
    LET u == Ulp(a)
        q == a \div u
        r == a % u
    IN  IF 2 * r < u THEN q * u
        ELSE IF 2 * r > u THEN (q + 1) * u
        ELSE IF q % 2 = 0 THEN q * u ELSE (q + 1) * u

Fl(n) == IF n < 0 THEN 0 - RoundMag(0 - n) ELSE RoundMag(n)

FSub(x, y) == Fl(x - y)

FAdd(x, y) == Fl(x + y)

Representable(n) == Fl(n) = n

----------------------------------------------------------------------------
(* The coordinate conversion *)

ToTopLeftFlipY0(bbox, page_height) ==
    [x      |-> bbox[1],
     y      |-> FSub(page_height, bbox[2]),
     width  |-> FSub(bbox[3], bbox[1]),
     height |-> FSub(bbox[4], bbox[2])]

\* main.py 61-65: the engine's box (x0, y0, x1, y1) to (x, y, width, height)
ToTopLeft(bbox, page_height) ==
    [x      |-> bbox[1],
     y      |-> FSub(page_height, bbox[4]),
     width  |-> FSub(bbox[3], bbox[1]),
     height |-> FSub(bbox[4], bbox[2])]

\* bbox.get(key, 0) of main.py 147-150
BboxGet(bbox, key) == IF key \in DOMAIN bbox THEN bbox[key] ELSE 0

\* main.py 147-157: (x, y, width, height) to the rectangle given to the engine
ToPdf(bbox, page_height) ==
    LET x      == BboxGet(bbox, "x")
        y      == BboxGet(bbox, "y")
        width  == BboxGet(bbox, "width")
        height == BboxGet(bbox, "height")
        pdf_y  == FSub(FSub(page_height, y), height)
    IN  <<x, pdf_y, FAdd(x, width), FAdd(pdf_y, height)>>

----------------------------------------------------------------------------
(* The conversion round trip: a box of the engine is converted by the      *)
(* extractor, and the result is converted back by the applicator.          *)

Coords == {n \in (0 - MaxCoord)..MaxCoord : Representable(n)}

\* the request variables of the conversion model
ReqOff ==
    /\ handler = "none" /\ pc = "off" /\ pdf_bytes = [valid |-> FALSE, pages |-> 0]
    /\ redaction_items = [json |-> FALSE] /\ items = <<>> /\ items_by_page = <<>>
    /\ gi = 0 /\ ii = 0 /\ page_num = 0 /\ page = 0
    /\ layout = <<>> /\ text_blocks = <<>> /\ full_text = <<>>
    /\ log = <<>> /\ exc = "none" /\ status = 0

\* a box b of a page of height h, and no request
ConvInit ==
    /\ ReqOff
    /\ h \in {n \in Coords : n > 0}
    /\ b \in Coords \X Coords \X Coords \X Coords
    /\ tl = <<>>
    /\ back = <<>>
    /\ cpc = "extract"

\* main.py 61-65 on the box b of a page of height h
ConvToTopLeft ==
    /\ cpc = "extract"
    /\ tl' = ToTopLeft(b, h)
    /\ cpc' = "redact"
    /\ UNCHANGED <<h, b, back>>
    /\ UNCHANGED reqvars

\* main.py 147-157 on the item whose bbox is the extractor's
ConvToPdf ==
    /\ cpc = "redact"
    /\ back' = ToPdf(tl, h)
    /\ cpc' = "done"
    /\ UNCHANGED <<h, b, tl>>
    /\ UNCHANGED reqvars

----------------------------------------------------------------------------
(* Text: a string is a sequence of characters *)

Whitespace == {" ", "\n"}

RECURSIVE LStrip(_)
LStrip(s) == IF s # <<>> /\ Head(s) \in Whitespace THEN LStrip(Tail(s)) ELSE s

RECURSIVE RStrip(_)
RStrip(s) ==
    IF s # <<>> /\ s[Len(s)] \in Whitespace THEN RStrip(SubSeq(s, 1, Len(s) - 1)) ELSE s

\* str.strip()
Strip(s) == RStrip(LStrip(s))

----------------------------------------------------------------------------
(* The PDF engine *)

Call(op, arg) == [op |-> op, arg |-> arg]

\* page.rect.height
PageHeight(i) == 8

\* the texts of the spans the engine returns
SpanTexts == { <<" ", "a", " ", "b", "\n">>, <<" ", "\n">> }

RECURSIVE SeqsUpTo(_, _)
SeqsUpTo(S, n) ==
    IF n = 0 THEN {<<>>}
    ELSE LET shorter == SeqsUpTo(S, n - 1)
         IN  shorter \cup {Append(s, e) : s \in {t \in shorter : Len(t) = n - 1}, e \in S}

\* the j-th span of a page
Span(texts, j) == [text |-> texts[j], bbox |-> <<j, 1, j + 1, 2>>]

TextBlock(lines) == [type |-> 0, lines |-> lines]

\* a block without "lines"
ImageBlock == [type |-> 1]

Line(spans) == [spans |-> spans]

\* the results of page.get_text("dict") the model draws from: the spans of
\* a page on one line, on a line each, or in a block each after an image
PageLayouts ==
    UNION { { [blocks |-> <<TextBlock(<<Line([j \in 1..Len(t) |-> Span(t, j)])>>)>>],
              [blocks |-> <<TextBlock([j \in 1..Len(t) |-> Line(<<Span(t, j)>>)])>>],
              [blocks |-> <<ImageBlock>> \o
                            [j \in 1..Len(t) |-> TextBlock(<<Line(<<Span(t, j)>>)>>)]] }
            : t \in SeqsUpTo(SpanTexts, MaxSpans) }

Uploads ==
    {[valid |-> FALSE, pages |-> 0]} \cup {[valid |-> TRUE, pages |-> n] : n \in 1..MaxPages}

\* page_num + 1 of main.py 69
PageNumber(n) == n + 1

SpanEntriesKeepBlank(span, n, page_height) ==
    << [text |-> Strip(span.text), page |-> PageNumber(n),
        bbox |-> ToTopLeft(span.bbox, page_height)] >>

\* main.py 58-76: what one span adds to text_blocks
SpanEntries(span, n, page_height) ==
    LET text == Strip(span.text)
    IN  IF text # <<>>
        THEN << [text |-> text, page |-> PageNumber(n),
                 bbox |-> ToTopLeft(span.bbox, page_height)] >>
        ELSE <<>>

RECURSIVE WalkSpans(_, _, _)
\* main.py 57
WalkSpans(spans, n, page_height) ==
    IF spans = <<>> THEN <<>>
    ELSE SpanEntries(Head(spans), n, page_height) \o WalkSpans(Tail(spans), n, page_height)

RECURSIVE WalkLines(_, _, _)
\* main.py 56
WalkLines(lines, n, page_height) ==
    IF lines = <<>> THEN <<>>
    ELSE WalkSpans(Head(lines).spans, n, page_height)
         \o WalkLines(Tail(lines), n, page_height)

RECURSIVE WalkBlocks(_, _, _)
\* main.py 54-55
WalkBlocks(blocks, n, page_height) ==
    IF blocks = <<>> THEN <<>>
    ELSE (IF "lines" \in DOMAIN Head(blocks)
          THEN WalkLines(Head(blocks).lines, n, page_height)
          ELSE <<>>)
         \o WalkBlocks(Tail(blocks), n, page_height)

RECURSIVE JoinTexts(_)
\* main.py 77: full_text += text + " "
JoinTexts(entries) ==
    IF entries = <<>> THEN <<>>
    ELSE Head(entries).text \o <<" ">> \o JoinTexts(Tail(entries))

----------------------------------------------------------------------------
(* The end of a request *)

\* main.py 90-92 and 184-188: the except clauses
ExceptStatusAll500(handler_name, e) == 500

ExceptStatus(handler_name, e) ==
    IF handler_name = "redact" /\ e = "JSONDecodeError" THEN 400 ELSE 500

Raise(e) ==
    /\ exc' = e
    /\ status' = ExceptStatus(handler, e)
    /\ pc' = "done"

----------------------------------------------------------------------------
(* extract_text_with_positions *)

\* main.py 36-44
ExtractOpen ==
    /\ handler = "extract" /\ pc = "open"
    /\ \/ /\ ~pdf_bytes.valid
          /\ log' = Append(log, Call("open_failed", 0))
          /\ Raise("EngineError")
          /\ UNCHANGED <<page_num, text_blocks, full_text>>
       \/ /\ pdf_bytes.valid
          /\ log' = log \o <<Call("open", 0), Call("page_count", 0)>>
          /\ text_blocks' = <<>>
          /\ full_text' = <<>>
          /\ page_num' = 0
          /\ pc' = "page"
          /\ UNCHANGED <<exc, status>>
    /\ UNCHANGED <<handler, pdf_bytes, redaction_items, items, items_by_page, gi, ii,
                   page, layout>>
    /\ UNCHANGED convvars

\* main.py 47-77: one iteration of the loop over the pages
ExtractPage ==
    /\ handler = "extract" /\ pc = "page"
    /\ page_num < pdf_bytes.pages
    /\ page' = page_num
    /\ \/ /\ log' = log \o <<Call("page_count", 0), Call("load_page", page_num),
                             Call("get_text_failed", page_num)>>
          /\ Raise("EngineError")
          /\ UNCHANGED <<layout, text_blocks, full_text, page_num>>
       \/ \E blocks \in PageLayouts :
            LET added == WalkBlocks(blocks.blocks, page_num, PageHeight(page_num))
            IN  /\ log' = log \o <<Call("page_count", 0), Call("load_page", page_num),
                                   Call("get_text", page_num)>>
                /\ layout' = Append(layout, blocks)
                /\ text_blocks' = text_blocks \o added
                /\ full_text' = full_text \o JoinTexts(added)
                /\ page_num' = page_num + 1
                /\ UNCHANGED <<pc, exc, status>>
    /\ UNCHANGED <<handler, pdf_bytes, redaction_items, items, items_by_page, gi, ii>>
    /\ UNCHANGED convvars

\* main.py 79: the loop is over, pdf_doc.close()
ExtractClose ==
    /\ handler = "extract" /\ pc = "page"
    /\ page_num = pdf_bytes.pages
    /\ log' = log \o <<Call("page_count", 0), Call("close", 0)>>
    /\ pc' = "respond"
    /\ UNCHANGED <<handler, pdf_bytes, redaction_items, items, items_by_page, gi, ii,
                   page_num, page, layout, text_blocks, full_text, exc, status>>
    /\ UNCHANGED convvars

\* main.py 83-88: the response reads pdf_doc.page_count of the closed
\* document; the engine either refuses the closed document or answers
ExtractRespond ==
    /\ handler = "extract" /\ pc = "respond"
    /\ log' = Append(log, Call("page_count", 0))
    /\ \/ Raise("ValueError")
       \/ /\ status' = 200
          /\ pc' = "done"
          /\ UNCHANGED exc
    /\ UNCHANGED <<handler, pdf_bytes, redaction_items, items, items_by_page, gi, ii,
                   page_num, page, layout, text_blocks, full_text>>
    /\ UNCHANGED convvars

----------------------------------------------------------------------------
(* The redaction_items form value and its JSON *)

JNum(n) == [t |-> "num", v |-> n]

JStr(c) == [t |-> "str", c |-> c]

JObj(d) == [t |-> "obj", d |-> d]

JArr(a) == [t |-> "arr", a |-> a]

\* a form value that is no JSON text, such as "{not json"
NotJson == [json |-> FALSE]

\* the JSON text of the value v
Json(v) == [json |-> TRUE, val |-> v]

FullBox == [x |-> 1, y |-> 5, width |-> 2, height |-> 1]

PartialBox == [x |-> 1, y |-> 5]

\* the items the model draws from: a page from 0 to one past the last page,
\* no page, no bbox, a bbox without width and height, a page that is a
\* string, and an item that is no object
ItemShapes ==
    { JObj([page |-> JNum(p), bbox |-> FullBox]) : p \in 0..(MaxPages + 1) }
    \cup { JObj([bbox |-> FullBox]),
           JObj([page |-> JNum(1)]),
           JObj([page |-> JNum(1), bbox |-> PartialBox]),
           JObj([page |-> JStr("2"), bbox |-> FullBox]),
           JNum(7) }

\* the i-th item of the list carries "id": i
WithId(shape, i) == IF shape.t = "obj" THEN JObj(shape.d @@ [id |-> i]) ELSE shape

FormValues ==
    { NotJson, Json(JNum(5)), Json(JObj([items |-> JArr(<<>>)])) }
    \cup { Json(JArr([i \in 1..Len(s) |-> WithId(s[i], i)]))
           : s \in SeqsUpTo(ItemShapes, MaxItems) }

\* json.loads of main.py 111
JsonLoads(text) == IF text.json THEN [ok |-> TRUE, val |-> text.val] ELSE [ok |-> FALSE]

\* whether len(v) of main.py 112 is defined
HasLen(v) == v.t \in {"arr", "obj", "str"}

RECURSIVE SetToSeq(_)
SetToSeq(S) ==
    IF S = {} THEN <<>> ELSE LET e == CHOOSE x \in S : TRUE IN <<e>> \o SetToSeq(S \ {e})

\* what `for item in items` of main.py 124 yields: the elements of a list,
\* the keys of an object
Elements(v) ==
    IF v.t = "arr" THEN v.a
    ELSE IF v.t = "obj" THEN SetToSeq({JStr(k) : k \in DOMAIN v.d})
    ELSE <<>>

\* item.get(key, default)
ItemGet(item, key, default) == IF key \in DOMAIN item.d THEN item.d[key] ELSE default

\* main.py 125: item.get('page', 1) - 1, for an item whose page is a number
PageKey(item) == ItemGet(item, "page", JNum(1)).v - 1

GroupAppendOverwrite(d, key, item) ==
    IF \E i \in 1..Len(d) : d[i].key = key
    THEN [i \in 1..Len(d) |-> IF d[i].key = key THEN [key |-> key, items |-> <<item>>] ELSE d[i]]
    ELSE Append(d, [key |-> key, items |-> <<item>>])

\* main.py 126-128 on the dict d, kept as the sequence of its entries in
\* insertion order
GroupAppend(d, key, item) ==
    IF \E i \in 1..Len(d) : d[i].key = key
    THEN [i \in 1..Len(d) |->
            IF d[i].key = key THEN [key |-> key, items |-> Append(d[i].items, item)] ELSE d[i]]
    ELSE Append(d, [key |-> key, items |-> <<item>>])

RECURSIVE InsertByKey(_, _)
InsertByKey(sorted, g) ==
    IF sorted = <<>> THEN <<g>>
    ELSE IF g.key < Head(sorted).key THEN <<g>> \o sorted
    ELSE <<Head(sorted)>> \o InsertByKey(Tail(sorted), g)

RECURSIVE DictItemsSorted(_)
DictItemsSorted(d) ==
    IF d = <<>> THEN <<>> ELSE InsertByKey(DictItemsSorted(Tail(d)), Head(d))

\* main.py 131: items_by_page.items(), the entries in insertion order
DictItems(d) == d

FlattenDoneEarly(i, n) == i >= n - 1

\* main.py 166: `for page in pdf_doc` is over after the last page
FlattenDone(i, n) == i >= n

----------------------------------------------------------------------------
(* redact_pdf *)

\* main.py 111-112
RedactParse ==
    /\ handler = "redact" /\ pc = "parse"
    /\ LET parsed == JsonLoads(redaction_items)
       IN  \/ /\ ~parsed.ok
              /\ Raise("JSONDecodeError")
              /\ UNCHANGED items
           \/ /\ parsed.ok /\ ~HasLen(parsed.val)
              /\ Raise("TypeError")
              /\ items' = parsed.val
           \/ /\ parsed.ok /\ HasLen(parsed.val)
              /\ items' = parsed.val
              /\ pc' = "open"
              /\ UNCHANGED <<exc, status>>
    /\ UNCHANGED <<handler, pdf_bytes, redaction_items, items_by_page, gi, ii,
                   page_num, page, layout, text_blocks, full_text, log>>
    /\ UNCHANGED convvars

\* main.py 115-123
RedactOpen ==
    /\ handler = "redact" /\ pc = "open"
    /\ \/ /\ ~pdf_bytes.valid
          /\ log' = Append(log, Call("open_failed", 0))
          /\ Raise("EngineError")
          /\ UNCHANGED <<items_by_page, gi>>
       \/ /\ pdf_bytes.valid
          /\ log' = log \o <<Call("open", 0), Call("page_count", 0)>>
          /\ items_by_page' = <<>>
          /\ gi' = 1
          /\ pc' = "group"
          /\ UNCHANGED <<exc, status>>
    /\ UNCHANGED <<handler, pdf_bytes, redaction_items, items, ii,
                   page_num, page, layout, text_blocks, full_text>>
    /\ UNCHANGED convvars

\* main.py 124-128: one iteration of the grouping loop
RedactGroup ==
    /\ handler = "redact" /\ pc = "group"
    /\ gi <= Len(Elements(items))
    /\ LET item == Elements(items)[gi]
       IN  \/ /\ item.t # "obj"
              /\ Raise("AttributeError")
              /\ UNCHANGED <<items_by_page, gi, page_num>>
           \/ /\ item.t = "obj"
              /\ ItemGet(item, "page", JNum(1)).t # "num"
              /\ Raise("TypeError")
              /\ UNCHANGED <<items_by_page, gi, page_num>>
           \/ /\ item.t = "obj"
              /\ ItemGet(item, "page", JNum(1)).t = "num"
              /\ page_num' = PageKey(item)
              /\ items_by_page' = GroupAppend(items_by_page, PageKey(item), item)
              /\ gi' = gi + 1
              /\ UNCHANGED <<pc, exc, status>>
    /\ UNCHANGED <<handler, pdf_bytes, redaction_items, items, ii,
                   page, layout, text_blocks, full_text, log>>
    /\ UNCHANGED convvars

\* main.py 124, 131: the grouping loop is over
RedactGroupEnd ==
    /\ handler = "redact" /\ pc = "group"
    /\ gi > Len(Elements(items))
    /\ pc' = "pages"
    /\ gi' = 1
    /\ UNCHANGED <<handler, pdf_bytes, redaction_items, items, items_by_page, ii,
                   page_num, page, layout, text_blocks, full_text, log, exc, status>>
    /\ UNCHANGED convvars

\* main.py 131-137: the next entry of items_by_page.  pdf_doc[page_num]
\* with a negative page_num is answered by the engine: it counts from the
\* end, or it refuses the index
RedactPage ==
    /\ handler = "redact" /\ pc = "pages"
    /\ gi <= Len(DictItems(items_by_page))
    /\ LET key == DictItems(items_by_page)[gi].key
       IN  /\ page_num' = key
           /\ \/ /\ key >= pdf_bytes.pages
                 /\ log' = Append(log, Call("page_count", 0))
                 /\ gi' = gi + 1
                 /\ UNCHANGED <<pc, ii, page, exc, status>>
              \/ /\ key < pdf_bytes.pages
                 /\ key >= 0
                 /\ log' = log \o <<Call("page_count", 0), Call("load_page", key)>>
                 /\ page' = key
                 /\ ii' = 1
                 /\ pc' = "items"
                 /\ UNCHANGED <<gi, exc, status>>
              \/ /\ key < 0
                 /\ log' = log \o <<Call("page_count", 0),
                                    Call("load_page", key % pdf_bytes.pages)>>
                 /\ page' = key % pdf_bytes.pages
                 /\ ii' = 1
                 /\ pc' = "items"
                 /\ UNCHANGED <<gi, exc, status>>
              \/ /\ key < 0
                 /\ log' = log \o <<Call("page_count", 0), Call("load_page_failed", key)>>
                 /\ Raise("IndexError")
                 /\ UNCHANGED <<gi, ii, page>>
    /\ UNCHANGED <<handler, pdf_bytes, redaction_items, items, items_by_page,
                   layout, text_blocks, full_text>>
    /\ UNCHANGED convvars

\* main.py 140-163: the next item of page_items
RedactItem ==
    /\ handler = "redact" /\ pc = "items"
    /\ ii <= Len(DictItems(items_by_page)[gi].items)
    /\ LET item == DictItems(items_by_page)[gi].items[ii]
           bbox == ItemGet(item, "bbox", <<>>)
       IN  \/ /\ DOMAIN bbox = {}
              /\ ii' = ii + 1
              /\ UNCHANGED <<pc, log, exc, status>>
           \/ /\ DOMAIN bbox # {}
              /\ log' = Append(log, Call("add_redact_annot",
                                         [page |-> page, key |-> page_num,
                                          id |-> ItemGet(item, "id", 0),
                                          rect |-> ToPdf(bbox, PageHeight(page))]))
              /\ ii' = ii + 1
              /\ UNCHANGED <<pc, exc, status>>
           \/ /\ DOMAIN bbox # {}
              /\ log' = Append(log, Call("add_redact_annot_failed", page))
              /\ Raise("EngineError")
              /\ UNCHANGED ii
    /\ UNCHANGED <<handler, pdf_bytes, redaction_items, items, items_by_page, gi,
                   page_num, page, layout, text_blocks, full_text>>
    /\ UNCHANGED convvars

\* main.py 140, 131: page_items is exhausted, on to the next entry
RedactItemsEnd ==
    /\ handler = "redact" /\ pc = "items"
    /\ ii > Len(DictItems(items_by_page)[gi].items)
    /\ pc' = "pages"
    /\ gi' = gi + 1
    /\ UNCHANGED <<handler, pdf_bytes, redaction_items, items, items_by_page, ii,
                   page_num, page, layout, text_blocks, full_text, log, exc, status>>
    /\ UNCHANGED convvars

\* main.py 131, 166: every entry of items_by_page has been visited
RedactPagesEnd ==
    /\ handler = "redact" /\ pc = "pages"
    /\ gi > Len(DictItems(items_by_page))
    /\ pc' = "flatten"
    /\ gi' = 0
    /\ UNCHANGED <<handler, pdf_bytes, redaction_items, items, items_by_page, ii,
                   page_num, page, layout, text_blocks, full_text, log, exc, status>>
    /\ UNCHANGED convvars

\* main.py 166-167: one iteration of `for page in pdf_doc`
RedactFlatten ==
    /\ handler = "redact" /\ pc = "flatten"
    /\ ~FlattenDone(gi, pdf_bytes.pages)
    /\ page' = gi
    /\ \/ /\ log' = log \o <<Call("load_page", gi), Call("apply_redactions", gi)>>
          /\ gi' = gi + 1
          /\ UNCHANGED <<pc, exc, status>>
       \/ /\ log' = log \o <<Call("load_page", gi), Call("apply_redactions_failed", gi)>>
          /\ Raise("EngineError")
          /\ UNCHANGED gi
    /\ UNCHANGED <<handler, pdf_bytes, redaction_items, items, items_by_page, ii,
                   page_num, layout, text_blocks, full_text>>
    /\ UNCHANGED convvars

\* main.py 170: pdf_doc.write()
RedactWrite ==
    /\ handler = "redact" /\ pc = "flatten"
    /\ FlattenDone(gi, pdf_bytes.pages)
    /\ \/ /\ log' = Append(log, Call("write", 0))
          /\ pc' = "close"
          /\ UNCHANGED <<exc, status>>
       \/ /\ log' = Append(log, Call("write_failed", 0))
          /\ Raise("EngineError")
    /\ UNCHANGED <<handler, pdf_bytes, redaction_items, items, items_by_page, gi, ii,
                   page_num, page, layout, text_blocks, full_text>>
    /\ UNCHANGED convvars

\* main.py 171: pdf_doc.close()
RedactClose ==
    /\ handler = "redact" /\ pc = "close"
    /\ log' = Append(log, Call("close", 0))
    /\ pc' = "respond"
    /\ UNCHANGED <<handler, pdf_bytes, redaction_items, items, items_by_page, gi, ii,
                   page_num, page, layout, text_blocks, full_text, exc, status>>
    /\ UNCHANGED convvars

\* main.py 176-182
RedactRespond ==
    /\ handler = "redact" /\ pc = "respond"
    /\ status' = 200
    /\ pc' = "done"
    /\ UNCHANGED <<handler, pdf_bytes, redaction_items, items, items_by_page, gi, ii,
                   page_num, page, layout, text_blocks, full_text, log, exc>>
    /\ UNCHANGED convvars

----------------------------------------------------------------------------
(* The specifications *)

\* the conversion variables of a request model
ConvOff ==
    /\ h = 0 /\ b = <<>> /\ tl = <<>> /\ back = <<>> /\ cpc = "off"

\* a request arrives at one of the two endpoints
Init ==
    /\ handler \in {"extract", "redact"}
    /\ pdf_bytes \in Uploads
    /\ redaction_items \in (IF handler = "redact" THEN FormValues ELSE {NotJson})
    /\ pc = (IF handler = "redact" THEN "parse" ELSE "open")
    /\ items = <<>> /\ items_by_page = <<>>
    /\ gi = 0 /\ ii = 0 /\ page_num = 0 /\ page = 0
    /\ layout = <<>> /\ text_blocks = <<>> /\ full_text = <<>>
    /\ log = <<>> /\ exc = "none" /\ status = 0
    /\ ConvOff

Next ==
    \/ ExtractOpen
    \/ ExtractPage
    \/ ExtractClose
    \/ ExtractRespond
    \/ RedactParse
    \/ RedactOpen
    \/ RedactGroup
    \/ RedactGroupEnd
    \/ RedactPage
    \/ RedactItem
    \/ RedactItemsEnd
    \/ RedactPagesEnd
    \/ RedactFlatten
    \/ RedactWrite
    \/ RedactClose
    \/ RedactRespond

Spec == Init /\ [][Next]_vars

ConvNext ==
    \/ ConvToTopLeft
    \/ ConvToPdf

SpecConv == ConvInit /\ [][ConvNext]_vars

----------------------------------------------------------------------------
(* What the properties read *)

Opened == \E i \in 1..Len(log) : log[i].op = "open"

Closed == \E i \in 1..Len(log) : log[i].op = "close"

IsMark(c) == c.op = "add_redact_annot"

\* the add_redact_annot calls of the request, in order
Marks == SelectSeq(log, IsMark)

\* the page key the grouping is to give an item: page - 1, page 1 if absent
KeyOf(item) == (IF "page" \in DOMAIN item.d THEN item.d.page.v ELSE 1) - 1

\* every item is an object whose page, if any, is a number
WellFormed(v) ==
    /\ v.t = "arr"
    /\ \A i \in 1..Len(v.a) :
          /\ v.a[i].t = "obj"
          /\ ("page" \in DOMAIN v.a[i].d => v.a[i].d.page.t = "num")

\* the grouping loop has run over the first Grouped items
GroupingRan ==
    /\ handler = "redact"
    /\ pc \in {"group", "pages", "items", "flatten", "close", "respond"} \/ status = 200

Grouped == IF pc = "group" THEN gi - 1 ELSE Len(Elements(items))

RECURSIVE SumSizes(_)
SumSizes(d) == IF d = <<>> THEN 0 ELSE Len(Head(d).items) + SumSizes(Tail(d))

RECURSIVE Concat(_)
Concat(ss) == IF ss = <<>> THEN <<>> ELSE Head(ss) \o Concat(Tail(ss))

\* the spans of the pages read so far, each with its 0-based page, in the
\* engine's order
SpansOfBlock(blk) ==
    IF "lines" \in DOMAIN blk
    THEN Concat([li \in 1..Len(blk.lines) |-> blk.lines[li].spans])
    ELSE <<>>

SpansOfPage(pi) ==
    LET onpage == Concat([bi \in 1..Len(layout[pi].blocks) |->
                            SpansOfBlock(layout[pi].blocks[bi])])
    IN  [k \in 1..Len(onpage) |-> [index |-> pi - 1, span |-> onpage[k]]]

EngineSpans == Concat([pi \in 1..Len(layout) |-> SpansOfPage(pi)])

NonBlank(e) == \E k \in 1..Len(e.span.text) : e.span.text[k] \notin Whitespace

\* the first position of the input list whose item has page key k
FirstPos(k) ==
    CHOOSE n \in 1..Len(items.a) :
        /\ KeyOf(items.a[n]) = k
        /\ \A m \in 1..(n - 1) : KeyOf(items.a[m]) # k

----------------------------------------------------------------------------
(* The properties *)

\* C1: in both handlers a Document that was opened is closed when the
\* request has ended, on the success path and on every failure path.
C1_ClosedOnEveryExit == (pc = "done" /\ Opened) => Closed

\* C2: with well-formed items and an engine that neither fails nor refuses
\* a call, redact_pdf ends successfully, and every mark it added is for an
\* item whose page is in 1..P; an item whose page is outside 1..P adds no
\* mark.
C2_OnlyValidPagesMarked ==
    (handler = "redact" /\ redaction_items.json /\ WellFormed(redaction_items.val)
        /\ exc \notin {"EngineError", "IndexError"})
    => /\ pc = "done" => status = 200
       /\ \A i \in 1..Len(Marks) :
             KeyOf(items.a[Marks[i].arg.id]) + 1 \in 1..pdf_bytes.pages

\* C3: a redaction_items value that is no JSON ends redact_pdf with status
\* 400, and no call is made on the PDF engine during the request.
C3_BadJsonIs400WithoutEngineCall ==
    (handler = "redact" /\ ~redaction_items.json)
    => /\ log = <<>>
       /\ pc \in {"parse", "done"}
       /\ pc = "done" => status = 400

C3_Witness ==
    /\ handler = "redact" /\ ~redaction_items.json /\ pdf_bytes.valid
    /\ pc = "done" /\ status = 400 /\ exc = "JSONDecodeError"

\* C4: a redaction_items value that is JSON but not an array of objects
\* with numeric pages is rejected before any call on the PDF engine (here
\* for an upload that is a PDF).
C4_MalformedRejectedBeforeEngine ==
    (handler = "redact" /\ pdf_bytes.valid /\ redaction_items.json
        /\ ~WellFormed(redaction_items.val))
    => /\ log = <<>>
       /\ status # 200

\* C5: the grouping loop, having run over the first N items, has mapped
\* each of them to the key page - 1 (page 1 when absent): the keys of the
\* mapping are distinct, the group of a key lists exactly the items of that
\* key in input order, and the sizes of the groups sum to N.
C5_GroupingCompleteAndOrdered ==
    GroupingRan =>
      LET prefix == SubSeq(Elements(items), 1, Grouped)
      IN  /\ \A i, j \in 1..Len(items_by_page) :
                items_by_page[i].key = items_by_page[j].key => i = j
          /\ \A i \in 1..Len(items_by_page) :
                /\ items_by_page[i].items # <<>>
                /\ items_by_page[i].items =
                      SelectSeq(prefix, LAMBDA it : KeyOf(it) = items_by_page[i].key)
          /\ \A n \in 1..Len(prefix) :
                \E i \in 1..Len(items_by_page) : items_by_page[i].key = KeyOf(prefix[n])
          /\ SumSizes(items_by_page) = Len(prefix)

C5_Witness ==
    /\ handler = "redact" /\ pc = "pages"
    /\ Len(Elements(items)) = 3
    /\ Len(items_by_page) = 2
    /\ \E i \in 1..2 : Len(items_by_page[i].items) = 2
    /\ \E n \in 1..3 : "page" \notin DOMAIN items.a[n].d

C7_OneEntryPerNonBlankSpan ==
    handler = "extract" =>
      LET kept == SelectSeq(EngineSpans, NonBlank)
      IN  /\ Len(text_blocks) = Len(kept)
          /\ \A k \in 1..Len(kept) :
                /\ text_blocks[k].page = kept[k].index + 1
                /\ text_blocks[k].bbox.x = kept[k].span.bbox[1]
                /\ text_blocks[k].text # <<>>
          /\ pc \in {"respond", "done"} /\ exc # "EngineError"
                => Len(layout) = pdf_bytes.pages

C7_Witness ==
    /\ handler = "extract" /\ pc = "respond" /\ pdf_bytes.pages = 2
    /\ Len(EngineSpans) > Len(text_blocks)
    /\ \E i, j \in 1..Len(text_blocks) :
          /\ text_blocks[i].page = 1 /\ text_blocks[j].page = 2
    /\ \E i, j \in 1..Len(text_blocks) :
          /\ i < j /\ text_blocks[i].page = text_blocks[j].page

\* C8 as claimed: the marks are added in ascending order of page index.
C8_AscendingPageOrder ==
    \A i, j \in 1..Len(Marks) : i < j => Marks[i].arg.key <= Marks[j].arg.key

\* C8 as amended: the marks are added page by page in the order in which
\* the pages first appear in the input list, and within one page in the
\* input order of its items.
C8_FirstAppearanceOrder ==
    \A i, j \in 1..Len(Marks) :
        i < j =>
          IF Marks[i].arg.key = Marks[j].arg.key
          THEN Marks[i].arg.id < Marks[j].arg.id
          ELSE FirstPos(Marks[i].arg.key) < FirstPos(Marks[j].arg.key)

C8_Witness ==
    /\ status = 200
    /\ Len(Marks) = 3
    /\ Marks[1].arg.key > Marks[3].arg.key
    /\ Marks[1].arg.key = Marks[2].arg.key

\* C9: no page is flattened before the last mark of the request; a
\* successful request has flattened every page of the Document exactly
\* once, and has written the output after every flatten.
C9_FlattenAfterMarksThenWrite ==
    handler = "redact" =>
      /\ \A i, j \in 1..Len(log) :
            (log[i].op \in {"apply_redactions", "apply_redactions_failed"} /\ IsMark(log[j]))
            => j < i
      /\ \A i, j \in 1..Len(log) :
            (log[i].op = "write" /\ log[j].op = "apply_redactions") => j < i
      /\ status = 200 =>
            /\ \A n \in 0..(pdf_bytes.pages - 1) :
                  Cardinality({i \in 1..Len(log) : log[i] = Call("apply_redactions", n)}) = 1
            /\ \A i \in 1..Len(log) :
                  log[i].op = "apply_redactions" => log[i].arg \in 0..(pdf_bytes.pages - 1)
            /\ Cardinality({i \in 1..Len(log) : log[i].op = "write"}) = 1

C9_Witness ==
    /\ handler = "redact" /\ status = 200 /\ pdf_bytes.pages = 2
    /\ Len(Marks) >= 2
    /\ \E i, j \in 1..Len(Marks) : Marks[i].arg.page # Marks[j].arg.page

\* C10: no call is made on the Document after it was closed.
C10_NoCallAfterClose ==
    \A i, j \in 1..Len(log) : i < j => log[i].op # "close"

====
